---- MODULE Spec2Model ----
(***************************************************************************)
(* Model of update_dns/main.py: the Lambda handler that keeps the A        *)
(* records of a Route53 zone in step with the instances of an autoscaling  *)
(* group, serialising its read-merge-write sequences with a DynamoDB lock. *)
(*                                                                         *)
(* Addresses, record names and record values are numbered; the numeric     *)
(* order of addresses stands for the string order sorted() uses.           *)
(***************************************************************************)
EXTENDS Integers, Sequences, FiniteSets, TLC

\* ------------------------------------------------------------------ bounds
\* Number of overlapping handler invocations.
NumProcs == 2
\* Number of instances of the fleet.
NumInstances == 2
\* The most record sets the listing backend puts on one page, whatever
\* MaxItems asks for.
PageLimit == 1

\* ------------------------------------------------------- program constants
\* lock(): timeout = 30
Timeout == 30
\* lock(): time.sleep(1)
SleepInterval == 1
\* int(environ["ROUTE53_TTL"]), the value the unit test uses
Ttl == 300
\* add_record: "MaxItems": "100"
MaxItems == 100
\* remove_record: MaxItems="1"
RemoveMaxItems == 1

Procs == 1..NumProcs
Instances == 1..NumInstances

\* The managed group (environ["ASG_NAME"]).
AsgName == "asg"

HookNames == {"update-dns-launching", "update-dns-terminating"}
Launching == "autoscaling:EC2_INSTANCE_LAUNCHING"
Terminating == "autoscaling:EC2_INSTANCE_TERMINATING"

\* Addresses of instance i as the platform assigns them.
PrivateIp(i) == i
PublicIp(i) == NumInstances + i
\* A value of the zone's NS record set (not an address of any instance).
NsValue == 2 * NumInstances + 1

\* Record names, in the zone's listing order: the apex, then the literal
\* hostname, then the private DNS names of the instances.
ApexName == 0
LiteralName == 1
PrivateDnsName(i) == 1 + i
HostNames == {LiteralName} \cup {PrivateDnsName(i) : i \in Instances}

VARIABLES
    env,        \* the configuration: ROUTE53_PUBLIC_IP, ROUTE53_HOSTNAME
    instances,  \* what describe_instances reports for each instance
    zone,       \* the record sets of the hosted zone
    lockTable,  \* the rows of the DynamoDB lock table (their ResourceId)
    inv         \* the handler invocations: position, event and locals

vars == <<env, instances, zone, lockTable, inv>>

\* ---------------------------------------------------------------- helpers
Range(s) == {s[k] : k \in 1..Len(s)}

Min(S) == CHOOSE x \in S : \A y \in S : x <= y

\* sorted(list(ip_set)): the values of a set in ascending order.
RECURSIVE Sorted(_)
Sorted(S) == IF S = {} THEN <<>> ELSE <<Min(S)>> \o Sorted(S \ {Min(S)})

\* list(ip_set): the values of a set in any of the orders a Python set may
\* iterate in.
Orderings(S) == {s \in [1..Cardinality(S) -> S] : Range(s) = S}

\* --------------------------------------------------------------- the zone
TypeRank(t) == CASE t = "A" -> 0 [] t = "NS" -> 1 [] OTHER -> 2

\* Position of a record set in the listing order (by name, then by type).
Rank(name, type) == 3 * name + TypeRank(type)

RRSet(name, type, values, ttl) ==
    [Name |-> name, Type |-> type, ResourceRecords |-> values, TTL |-> ttl]

\* The record sets Route53 creates with the zone; the handler never changes them.
ApexRecords == {RRSet(ApexName, "NS", {NsValue}, Ttl)}

RECURSIVE InListingOrder(_)
InListingOrder(rrs) ==
    IF rrs = {} THEN <<>>
    ELSE LET first == CHOOSE r \in rrs :
                 \A q \in rrs : Rank(r.Name, r.Type) <= Rank(q.Name, q.Type)
         IN <<first>> \o InListingOrder(rrs \ {first})

\* The start position of a listing request that names none (None in the
\* code): it is before every record set.
NoName == -1
NoType == "-"

\* The response of list_resource_record_sets that carries the first n of the
\* record sets all: IsTruncated and the position of the next record set when
\* some are left.
Page(all, n) ==
    [ResourceRecordSets |-> SubSeq(all, 1, n),
     IsTruncated |-> n < Len(all),
     NextRecordName |-> IF n < Len(all) THEN all[n + 1].Name ELSE NoName,
     NextRecordType |-> IF n < Len(all) THEN all[n + 1].Type ELSE NoType]

\* list_resource_record_sets(StartRecordName, StartRecordType, MaxItems): the
\* page of the first record sets at or after the start position, in listing
\* order, as many as MaxItems and the backend's page allow.
ListResourceRecordSets(z, startName, startType, maxItems) ==
    CHOOSE response \in
        {Page(all, Min({Len(all), maxItems, PageLimit})) :
           all \in {InListingOrder({r \in z : Rank(r.Name, r.Type)
                                               >= Rank(startName, startType)})}} :
        TRUE

\* The A record set of a name, as a set of at most one record set.
ARecord(z, name) == {r \in z : r.Name = name /\ r.Type = "A"}

Change(action, name, values, ttl) ==
    [Action |-> action, Name |-> name, Type |-> "A",
     ResourceRecords |-> values, TTL |-> ttl]

\* change_resource_record_sets: an UPSERT needs at least one value; a DELETE
\* needs a record set of that name and type with the same values and TTL.
ChangeAccepted(z, c) ==
    IF c.Action = "UPSERT" THEN c.ResourceRecords # <<>>
    ELSE \E r \in ARecord(z, c.Name) :
             r.ResourceRecords = Range(c.ResourceRecords) /\ r.TTL = c.TTL

ApplyChange(z, c) ==
    IF c.Action = "UPSERT"
    THEN (z \ ARecord(z, c.Name))
             \cup {RRSet(c.Name, "A", Range(c.ResourceRecords), c.TTL)}
    ELSE z \ ARecord(z, c.Name)

\* ---------------------------------------------------- the compute platform
IpKind(public) == IF public THEN "PublicIpAddress" ELSE "PrivateIpAddress"

\* Mutant: no fallback to the tag.
get_instance_ip_NoFallback(insts, i, public) == insts[i][IpKind(public)]

\* get_instance_ip: the live address of the kind, else the tag of that kind;
\* the empty set stands for the RuntimeError raised when there is neither.
get_instance_ip(insts, i, public) ==
    IF insts[i][IpKind(public)] # {} THEN insts[i][IpKind(public)]
    ELSE insts[i].Tags[IpKind(public)]

\* get_instance_asg: the value of the aws:autoscaling:groupName tag.
get_instance_asg(insts, i) == insts[i].Tags.GroupName

\* get_instance_hostname: the first label of the private DNS name.
get_instance_hostname(insts, i) == insts[i].PrivateDnsName

resolve_hostname(e, insts, i) ==
    IF e.ROUTE53_HOSTNAME = "_PrivateDnsName_"
    THEN get_instance_hostname(insts, i)
    ELSE LiteralName

\* ---------------------------------------------------------- record names
\* The text of the hostname the code has resolved: the configured string, or
\* the first label of the private DNS name.
NameText(e, name) ==
    IF name = LiteralName THEN <<e.ROUTE53_HOSTNAME>>
    ELSE <<"ip", "-", "10", "-", "1", "-", "0", "-", ToString(name - 1)>>

\* ROUTE53_ZONE_NAME as the unit test passes it, token by token, and the same
\* name with the trailing dot.
UndottedZoneName == <<"ci-cd", ".", "infrahouse", ".", "com">>
DottedZoneName == UndottedZoneName \o <<".">>

\* add_record, lines 51-52: the zone name gets a trailing dot when it has
\* none.
NormalizedZoneName(zone_name) ==
    IF zone_name[Len(zone_name)] = "." THEN zone_name ELSE zone_name \o <<".">>

\* f"{hostname}.{zone_name}"
RecordName(hostname, zone_name) == hostname \o <<".">> \o zone_name

\* The Name of the record set in the change request of an operation:
\* add_record builds it from the normalised zone name (line 105),
\* remove_record from the zone name as it is configured (lines 164, 181).
RequestName(e, op, name) ==
    IF op = "add"
    THEN RecordName(NameText(e, name), NormalizedZoneName(e.ROUTE53_ZONE_NAME))
    ELSE RecordName(NameText(e, name), e.ROUTE53_ZONE_NAME)

\* ---------------------------------------------------------- the two merges
\* Mutant: the values already in the zone are not merged.
AddIpSet_NoMerge(listing, name, ip_set) == ip_set

\* Mutant: ip_set ^= existing instead of the union.
AddIpSet_Xor(listing, name, ip_set) ==
    LET existing == UNION {listing[k].ResourceRecords : k \in
                     {j \in 1..Len(listing) :
                         listing[j].Name = name /\ listing[j].Type = "A"}}
    IN (ip_set \cup existing) \ (ip_set \cap existing)

\* Mutant: the values of every listed record set are merged, whatever its
\* name and its type.
AddIpSet_NoFilter(listing, name, ip_set) ==
    ip_set \cup UNION {listing[k].ResourceRecords : k \in 1..Len(listing)}

\* add_record, lines 80-88: ip_set, which starts as the instance's address
\* (line 63), with every value of the A record sets of a page whose name is
\* the hostname's.
AddIpSet(listing, name, ip_set) ==
    ip_set \cup
    UNION {listing[k].ResourceRecords : k \in
             {j \in 1..Len(listing) :
                 listing[j].Name = name /\ listing[j].Type = "A"}}

\* Mutant: the loop stops after the first page.
MorePages_Never(response) == FALSE

\* add_record, lines 91-96: the loop goes on while the page is truncated.
MorePages(response) == response.IsTruncated

\* Mutant: the instance's own address is not filtered out.
RemoveIpSet_KeepAll(listing, instance_ip) ==
    UNION {listing[k].ResourceRecords : k \in 1..Len(listing)}

\* remove_record, lines 149-154: every value of the listed record sets other
\* than the instance's address.
RemoveIpSet(listing, instance_ip) ==
    UNION {listing[k].ResourceRecords : k \in 1..Len(listing)} \ {instance_ip}

\* add_record, lines 90-114: the UPSERT of the sorted values.
AddChange(name, ip_set, ttl) == Change("UPSERT", name, Sorted(ip_set), ttl)

\* Mutant: the UPSERT is sent whether or not a value remains.
RemoveChanges_AlwaysUpsert(name, ip_set, instance_ip, ttl) ==
    {Change("UPSERT", name, vs, ttl) : vs \in Orderings(ip_set)}

\* remove_record, lines 155-189: the UPSERT of what remains, in any order, or
\* the DELETE naming the instance's address when nothing remains.
RemoveChanges(name, ip_set, instance_ip, ttl) ==
    IF ip_set # {}
    THEN {Change("UPSERT", name, vs, ttl) : vs \in Orderings(ip_set)}
    ELSE {Change("DELETE", name, <<instance_ip>>, ttl)}

\* ----------------------------------------------------------------- events
HookEvent(hook, transition, i) ==
    [source |-> "aws.autoscaling", LifecycleHookName |-> hook,
     LifecycleTransition |-> transition, state |-> "-", instance |-> i]

StateEvent(state, i) ==
    [source |-> "aws.ec2", LifecycleHookName |-> "-",
     LifecycleTransition |-> "-", state |-> state, instance |-> i]

NoEvent == StateEvent("-", 0)

\* The events the handler is subscribed to.
Events ==
    {HookEvent("update-dns-launching", Launching, i) : i \in Instances}
    \cup {HookEvent("update-dns-terminating", Terminating, i) : i \in Instances}
    \cup {StateEvent(st, i) : st \in {"running", "shutting-down", "pending"},
                              i \in Instances}

\* A lifecycle hook of the group that is not one of the handler's two.
OtherHookName == "other-hook"

\* A lifecycle transition the handler has no case for.
OtherTransition == "autoscaling:OTHER"

\* Events the handler has nothing to do for: another hook's, another
\* transition of its own hook, a state it does not act on; the state events
\* of an instance outside the group are those of Events.
OtherEvents ==
    {HookEvent(OtherHookName, Terminating, i) : i \in Instances}
    \cup {HookEvent("update-dns-terminating", OtherTransition, i) : i \in Instances}
    \cup {StateEvent("stopped", i) : i \in Instances}

\* lambda_handler, line 332: event["detail"]["instance-id"]. The detail of a
\* state-change notification has the key; that of a lifecycle event names
\* the instance under EC2InstanceId (lines 313-327) and the lookup raises
\* KeyError.
HasInstanceId(ev) == ev.source = "aws.ec2"

\* lambda_handler, line 301: the event takes the lifecycle-hook branch.
IsHookBranch(ev) ==
    ev.LifecycleTransition # "-" /\ ev.LifecycleHookName \in HookNames

\* Mutant: the launching transition of the hook branch runs the add path.
Operation_LaunchingAdds(ev) ==
    IF IsHookBranch(ev)
    THEN IF ev.LifecycleTransition = Terminating THEN "remove" ELSE "add"
    ELSE IF ev.state = "running" THEN "add"
         ELSE IF ev.state \in {"shutting-down", "terminated"} THEN "remove"
         ELSE "none"

\* The operation the handler runs under the lock for an event, if any.
Operation(ev) ==
    IF IsHookBranch(ev)
    THEN IF ev.LifecycleTransition = Terminating THEN "remove" ELSE "none"
    ELSE IF ev.state = "running" THEN "add"
         ELSE IF ev.state \in {"shutting-down", "terminated"} THEN "remove"
         ELSE "none"

\* The public argument of the call: remove_record's default in the hook
\* branch (lines 310-316), the configured flag elsewhere.
PublicArg(e, ev) == IF IsHookBranch(ev) THEN TRUE ELSE e.ROUTE53_PUBLIC_IP

\* ------------------------------------------------------------ initial state
Instance(i, hasPublic, tagged, e) ==
    [PublicIpAddress |-> IF hasPublic THEN {PublicIp(i)} ELSE {},
     PrivateIpAddress |-> {PrivateIp(i)},
     PrivateDnsName |-> PrivateDnsName(i),
     Tags |-> [GroupName |-> AsgName,
               PublicIpAddress |->
                   IF tagged /\ e.ROUTE53_PUBLIC_IP THEN {PublicIp(i)} ELSE {},
               PrivateIpAddress |->
                   IF tagged /\ ~e.ROUTE53_PUBLIC_IP THEN {PrivateIp(i)} ELSE {},
               Name |-> IF tagged THEN {IF e.ROUTE53_HOSTNAME = "_PrivateDnsName_"
                                        THEN PrivateDnsName(i) ELSE LiteralName}
                        ELSE {}]]

Idle ==
    [pc |-> "idle", event |-> NoEvent, elapsed |-> 0, hostname |-> 0,
     instance_ip |-> 0, ip_set |-> {}, error |-> "",
     \* add_record's cursor and the listing requests it has made
     start_record_name |-> NoName, start_record_type |-> NoType, pages |-> 0,
     \* what the invocation has done so far
     requests |-> <<>>, record_name |-> <<>>, completions |-> <<>>,
     contended |-> FALSE,
     acquired |-> 0, released |-> 0, tagged |-> 0, fallback |-> FALSE]

Configs ==
    [ROUTE53_PUBLIC_IP : BOOLEAN,
     ROUTE53_HOSTNAME : {"update-dns-test", "_PrivateDnsName_"},
     ROUTE53_ZONE_NAME : {UndottedZoneName}]

\* The zone after the add path has run for the instances of reg.
ZoneOf(e, insts, reg) ==
    ApexRecords \cup
    {RRSet(n, "A",
           UNION {get_instance_ip(insts, i, e.ROUTE53_PUBLIC_IP) :
                    i \in {j \in reg : resolve_hostname(e, insts, j) = n}},
           Ttl) :
       n \in {resolve_hostname(e, insts, i) : i \in reg}}

\* Another autoscaling group of the account.
OtherAsgName == "another-asg"

\* A deployment: a configuration, a fleet with or without public addresses,
\* of which the instances of one of memberSets belong to the managed group,
\* and the instances an earlier add has registered; no invocation running.
Fleet(configs, memberSets) ==
    /\ env \in configs
    /\ \E hasPublic \in BOOLEAN, reg \in SUBSET Instances, members \in memberSets :
         /\ (env.ROUTE53_PUBLIC_IP /\ ~hasPublic) => reg = {}
         /\ reg \subseteq members
         /\ instances =
              [i \in Instances |->
                 [Instance(i, hasPublic, i \in reg, env) EXCEPT
                    !.Tags.GroupName = IF i \in members THEN AsgName
                                       ELSE OtherAsgName]]
         /\ zone = ZoneOf(env, instances, reg)
    /\ lockTable = {}
    /\ inv = [p \in Procs |-> Idle]

\* A deployment whose instances all belong to the managed group.
Deployment(configs) == Fleet(configs, {Instances})

Init == Deployment(Configs)

\* ------------------------------------------------------- lambda_handler
\* Mutant: the add path and the remove path lock different resource ids.
LockName_PerOperation(ev) ==
    IF Operation(ev) = "add" THEN "update-dns-add" ELSE "update-dns"

\* The resource id the call site of lock() passes (lines 309, 344, 357).
LockName(ev) == "update-dns"

\* Mutant: the hook branch has no finally clause, an exception skips the
\* completion call.
AfterWith_NoFinally(ev, error) ==
    IF error # "" THEN "raised"
    ELSE IF IsHookBranch(ev) THEN "complete" ELSE "done"

\* The position after the with statement: the finally clause of the hook
\* branch (line 318), else the end of the handler, where a pending exception
\* leaves it.
AfterWith(ev, error) ==
    IF IsHookBranch(ev) THEN "complete"
    ELSE IF error # "" THEN "raised" ELSE "done"

\* Mutant: on timeout the loop is left as if the lock had been acquired.
AfterTimeout_FallThrough(ev) == "resolve"

\* Mutant: the row is deleted after the body, but not in a finally clause.
AfterBody_NoFinally(ev, error) ==
    IF error # "" THEN AfterWith(ev, error) ELSE "release"

\* Mutant: the hook branch catches the exception (try/except) and returns.
AfterCompletion_Caught(error) == "done"

\* lambda_handler, lines 318-329: try/finally has no except clause; after
\* the completion call a pending exception leaves the handler.
AfterCompletion(error) == IF error # "" THEN "raised" ELSE "done"

\* Mutant: the timeout is raised inside the try of line 276, so the finally
\* clause deletes the row.
AfterTimeout_Release(ev) == "release"

\* lock, lines 254-257: the timeout raises before the try of line 276, so
\* the with statement's body and the delete of the row are skipped.
AfterTimeout(ev) == AfterWith(ev, "LockTimeout")

\* Mutant: the completion call is made inside the with statement, in place
\* of leaving it.
AfterBody_CompleteFirst(ev, error) ==
    IF IsHookBranch(ev) THEN "complete" ELSE "release"

\* lock, lines 276-279: the body of the with statement ends, normally or
\* with an exception, in the finally clause that deletes the row.
AfterBody(ev, error) == "release"

\* lambda_handler, lines 301-308 and 331-370: classify the event.
Receive(p, ev) ==
    /\ inv[p].pc = "idle"
    /\ inv' = [inv EXCEPT ![p].event = ev,
                 ![p].error =
                    IF ~IsHookBranch(ev) /\ ~HasInstanceId(ev)
                    THEN "KeyError" ELSE @,
                 ![p].pc =
                    IF IsHookBranch(ev)
                    THEN IF Operation(ev) = "none" THEN "complete" ELSE "lock"
                    ELSE IF ~HasInstanceId(ev) THEN "raised"
                    ELSE IF get_instance_asg(instances, ev.instance) = AsgName
                            /\ Operation(ev) # "none"
                         THEN "lock" ELSE "done"]
    /\ UNCHANGED <<env, instances, zone, lockTable>>

\* Mutant: put_item without its ConditionExpression.
ConditionHolds_Unconditional(table, rid) == TRUE

\* put_item with attribute_not_exists: the row is inserted iff it is absent.
ConditionHolds(table, rid) == rid \notin table

\* Mutant: the loop gives up after the first refused insert.
TimedOut_Early(elapsed) == elapsed > 0

\* lock, line 254: time.time() > now + timeout, the time spent being that of
\* the sleeps.
TimedOut(elapsed) == elapsed > Timeout

\* lock, lines 253-275: one turn of the loop; the timeout check, then the
\* conditional insert, then the sleep when the row is there.
LockAttempt(p) ==
    /\ inv[p].pc = "lock"
    /\ IF TimedOut(inv[p].elapsed)
       THEN /\ inv' = [inv EXCEPT ![p].error = "LockTimeout", ![p].elapsed = 0,
                          ![p].pc = AfterTimeout(inv[p].event)]
            /\ UNCHANGED lockTable
       ELSE IF ConditionHolds(lockTable, LockName(inv[p].event))
       THEN /\ lockTable' = lockTable \cup {LockName(inv[p].event)}
            /\ inv' = [inv EXCEPT ![p].pc = "resolve", ![p].elapsed = 0,
                          ![p].acquired = @ + 1]
       ELSE /\ inv' = [inv EXCEPT ![p].elapsed = @ + SleepInterval,
                          ![p].contended = TRUE]
            /\ UNCHANGED lockTable
    /\ UNCHANGED <<env, instances, zone>>

\* Mutant: any error of put_item is taken for contention and retried.
AfterStoreError_Retry(ev) == "lock"

\* lock, lines 271-272: the error is raised from the loop, before the try of
\* line 276; the with statement's body and the delete of the row are skipped.
AfterStoreError(ev) == AfterWith(ev, "ClientError")

\* lock, lines 269-272: put_item fails with another error than the
\* conditional check's; it is raised as it is.
LockStoreError(p) ==
    /\ inv[p].pc = "lock"
    /\ ~TimedOut(inv[p].elapsed)
    /\ inv' = [inv EXCEPT ![p].error = "ClientError", ![p].elapsed = 0,
                 ![p].pc = AfterStoreError(inv[p].event)]
    /\ UNCHANGED <<env, instances, zone, lockTable>>

\* lines 313, 348, 361: the hostname argument, evaluated inside the with block.
ResolveHostname(p) ==
    /\ inv[p].pc = "resolve"
    /\ inv' = [inv EXCEPT ![p].pc = "get_ip",
                 ![p].hostname = resolve_hostname(env, instances, inv[p].event.instance)]
    /\ UNCHANGED <<env, instances, zone, lockTable>>

\* add_record lines 56-63, remove_record lines 139-149.
GetInstanceIp(p) ==
    /\ inv[p].pc = "get_ip"
    /\ LET ip == get_instance_ip(instances, inv[p].event.instance,
                                 PublicArg(env, inv[p].event))
       IN IF ip = {}
          THEN inv' = [inv EXCEPT ![p].error = "RuntimeError",
                          ![p].pc = AfterBody(inv[p].event, "RuntimeError")]
          ELSE inv' = [inv EXCEPT ![p].pc = "list",
                          ![p].instance_ip = CHOOSE a \in ip : TRUE,
                          ![p].fallback =
                              instances[inv[p].event.instance]
                                  [IpKind(PublicArg(env, inv[p].event))] = {},
                          ![p].ip_set = IF Operation(inv[p].event) = "add"
                                        THEN ip ELSE {}]
    /\ UNCHANGED <<env, instances, zone, lockTable>>

\* add_record lines 64-96: one turn of the paging loop, from the cursor the
\* page before it left; remove_record lines 143-155: its one request.
ListRecords(p) ==
    /\ inv[p].pc = "list"
    /\ IF Operation(inv[p].event) = "add"
       THEN \E response \in {ListResourceRecordSets(
                                zone, inv[p].start_record_name,
                                inv[p].start_record_type, MaxItems)} :
               inv' = [inv EXCEPT
                   ![p].ip_set = AddIpSet(response.ResourceRecordSets,
                                          inv[p].hostname, @),
                   ![p].pages = @ + 1,
                   ![p].start_record_name =
                       IF MorePages(response) THEN response.NextRecordName ELSE @,
                   ![p].start_record_type =
                       IF MorePages(response) THEN response.NextRecordType ELSE @,
                   ![p].pc = IF MorePages(response) THEN "list" ELSE "change"]
       ELSE \E response \in {ListResourceRecordSets(
                                zone, inv[p].hostname, "A", RemoveMaxItems)} :
               inv' = [inv EXCEPT
                   ![p].ip_set = RemoveIpSet(response.ResourceRecordSets,
                                             inv[p].instance_ip),
                   ![p].pages = @ + 1,
                   ![p].pc = "change"]
    /\ UNCHANGED <<env, instances, zone, lockTable>>

\* The change request(s) the operation may send.
ChangesOf(p) ==
    IF Operation(inv[p].event) = "add"
    THEN {AddChange(inv[p].hostname, inv[p].ip_set, Ttl)}
    ELSE RemoveChanges(inv[p].hostname, inv[p].ip_set, inv[p].instance_ip, Ttl)

\* Mutant: add_record returns after its UPSERT, writing no tag.
AfterChange_NoTags(ev) == AfterBody(ev, "")

\* The position after an accepted change request: create_tags in add_record
\* (line 115), the end of the with statement's body after remove_record.
AfterChange(ev) ==
    IF Operation(ev) = "add" THEN "tags" ELSE AfterBody(ev, "")

\* add_record lines 99-114, remove_record lines 156-189: the request is
\* applied, or refused with a ClientError that leaves the zone as it is.
ChangeRecords(p) ==
    /\ inv[p].pc = "change"
    /\ \E c \in ChangesOf(p) :
         IF ChangeAccepted(zone, c)
         THEN /\ zone' = ApplyChange(zone, c)
              /\ inv' = [inv EXCEPT ![p].requests = Append(@, c),
                            ![p].record_name =
                                RequestName(env, Operation(inv[p].event), c.Name),
                            ![p].pc = AfterChange(inv[p].event)]
         ELSE /\ zone' = zone
              /\ inv' = [inv EXCEPT ![p].requests = Append(@, c),
                            ![p].record_name =
                                RequestName(env, Operation(inv[p].event), c.Name),
                            ![p].error = "InvalidChangeBatch",
                            ![p].pc = AfterBody(inv[p].event, "InvalidChangeBatch")]
    /\ UNCHANGED <<env, instances, lockTable>>

\* Mutant: only the Name tag is written.
AddTags_NameOnly(tags, kind, instance_ip, name) ==
    [tags EXCEPT !.Name = {name}]

\* create_tags with the Tags of add_record, lines 120-129: the address under
\* the key of its kind and the hostname under Name, over what is there.
AddTags(tags, kind, instance_ip, name) ==
    [tags EXCEPT ![kind] = {instance_ip}, !.Name = {name}]

\* add_record lines 115-130.
CreateTags(p) ==
    /\ inv[p].pc = "tags"
    /\ LET i == inv[p].event.instance
           kind == IpKind(PublicArg(env, inv[p].event))
       IN instances' = [instances EXCEPT
              ![i].Tags = AddTags(@, kind, inv[p].instance_ip,
                                  resolve_hostname(env, instances, i))]
    /\ inv' = [inv EXCEPT ![p].pc = AfterBody(inv[p].event, ""),
                 ![p].tagged = @ + 1]
    /\ UNCHANGED <<env, zone, lockTable>>

\* delete_item: the row goes, whoever inserted it.
DeleteItem(table, rid) == table \ {rid}

\* lock, lines 279-284: the finally clause of the context manager.
Release(p) ==
    /\ inv[p].pc = "release"
    /\ lockTable' = DeleteItem(lockTable, LockName(inv[p].event))
    /\ inv' = [inv EXCEPT ![p].released = @ + 1,
                 ![p].pc = AfterWith(inv[p].event, inv[p].error)]
    /\ UNCHANGED <<env, instances, zone>>

\* lambda_handler lines 318-329: the finally clause of the hook branch; the
\* pending exception, if any, goes on to the caller afterwards.
CompleteLifecycleAction(p) ==
    /\ inv[p].pc = "complete"
    /\ inv' = [inv EXCEPT ![p].completions = Append(@, "CONTINUE"),
                 ![p].pc = AfterCompletion(inv[p].error)]
    /\ UNCHANGED <<env, instances, zone, lockTable>>

Next ==
    \E p \in Procs :
        \/ \E ev \in Events : Receive(p, ev)
        \/ LockAttempt(p)
        \/ LockStoreError(p)
        \/ ResolveHostname(p)
        \/ GetInstanceIp(p)
        \/ ListRecords(p)
        \/ ChangeRecords(p)
        \/ CreateTags(p)
        \/ Release(p)
        \/ CompleteLifecycleAction(p)

Spec == Init /\ [][Next]_vars

\* lambda_handler, line 287: the handler has returned or raised and the
\* runtime calls it again for the next event.
Return(p) ==
    /\ inv[p].pc \in {"done", "raised"}
    /\ inv' = [inv EXCEPT ![p] = Idle]
    /\ UNCHANGED <<env, instances, zone, lockTable>>

\* One delivery at a time: a single invocation handles an event to its end
\* and is then called with the next one.
SeqNext ==
    \/ \E ev \in Events : Receive(1, ev)
    \/ LockAttempt(1)
    \/ LockStoreError(1)
    \/ ResolveHostname(1)
    \/ GetInstanceIp(1)
    \/ ListRecords(1)
    \/ ChangeRecords(1)
    \/ CreateTags(1)
    \/ Release(1)
    \/ CompleteLifecycleAction(1)
    \/ Return(1)

SeqSpec == Init /\ [][SeqNext]_vars

\* One delivery at a time, of any event the event bus may hand to the
\* handler, on a fleet of which some instances are outside the managed group.
AnyEventNext ==
    \/ \E ev \in OtherEvents : Receive(1, ev)
    \/ SeqNext

AnyEventSpec == Fleet(Configs, SUBSET Instances) /\ [][AnyEventNext]_vars

\* The platform releases the public address of an instance that is being
\* terminated: describe_instances no longer reports it; the tags stay.
ReleaseAddress(i) ==
    /\ instances[i].PublicIpAddress # {}
    /\ instances' = [instances EXCEPT ![i].PublicIpAddress = {}]
    /\ UNCHANGED <<env, zone, lockTable, inv>>

\* One delivery at a time, on a fleet whose instances are being terminated
\* meanwhile.
LiveNext ==
    \/ SeqNext
    \/ \E i \in Instances : ReleaseAddress(i)

LiveSpec == Init /\ [][LiveNext]_vars

\* The deployment of the integration test's public-name case: public mode
\* and ROUTE53_HOSTNAME set to _PublicDnsName_.
PublicNameConfigs ==
    [ROUTE53_PUBLIC_IP : {TRUE}, ROUTE53_HOSTNAME : {"_PublicDnsName_"},
     ROUTE53_ZONE_NAME : {UndottedZoneName}]

PublicNameInit == Deployment(PublicNameConfigs)

PublicNameSpec == PublicNameInit /\ [][SeqNext]_vars

\* The deployments with ROUTE53_ZONE_NAME given with and without the
\* trailing dot.
ZoneNameConfigs ==
    [ROUTE53_PUBLIC_IP : BOOLEAN,
     ROUTE53_HOSTNAME : {"update-dns-test", "_PrivateDnsName_"},
     ROUTE53_ZONE_NAME : {UndottedZoneName, DottedZoneName}]

ZoneNameInit == Deployment(ZoneNameConfigs)

ZoneNameSpec == ZoneNameInit /\ [][SeqNext]_vars

\* The steps of invocation p once its event has arrived.
Run(p) ==
    \/ LockAttempt(p)
    \/ ResolveHostname(p)
    \/ GetInstanceIp(p)
    \/ ListRecords(p)
    \/ ChangeRecords(p)
    \/ CreateTags(p)
    \/ Release(p)
    \/ CompleteLifecycleAction(p)

\* The deployments of the integration test's private case: private mode and
\* a literal hostname.
PrivateLiteralInit ==
    /\ Init
    /\ env = [ROUTE53_PUBLIC_IP |-> FALSE, ROUTE53_HOSTNAME |-> "update-dns-test",
              ROUTE53_ZONE_NAME |-> UndottedZoneName]

\* The runtime keeps running the invocations it started: while one of them
\* has a step to take, a step is taken.
FairSpec ==
    PrivateLiteralInit /\ [][Next]_vars /\ WF_vars(\E p \in Procs : Run(p))

\* ================================================================ claims
\* The invocation is inside the critical section: its conditional insert has
\* succeeded and its delete of the row has not happened yet.
InCriticalSection(p) ==
    inv[p].pc \in {"resolve", "get_ip", "list", "change", "tags", "release"}

Finished(p) == inv[p].pc \in {"done", "raised"}

\* C1: at any instant at most one of the invocations that lock the same
\* resource id is inside the critical section, and while one is inside the
\* row exists (so that no other conditional insert can succeed).
C1_MutualExclusion ==
    /\ \A p, q \in Procs :
         (p # q /\ InCriticalSection(p) /\ InCriticalSection(q))
             => LockName(inv[p].event) # LockName(inv[q].event)
    /\ \A p \in Procs :
         InCriticalSection(p) => LockName(inv[p].event) \in lockTable

\* C1 witness: one invocation is inside the critical section while another
\* one has tried the conditional insert for the same id and was refused.
C1_Witness ==
    \E p, q \in Procs :
        /\ p # q /\ InCriticalSection(p)
        /\ inv[q].pc = "lock" /\ inv[q].elapsed > 0
        /\ LockName(inv[p].event) = LockName(inv[q].event)

\* The values of the A record set of a name (none when there is no such set).
ValuesOf(z, name) == UNION {r.ResourceRecords : r \in ARecord(z, name)}

\* The instances whose address an add path has tagged.
TaggedInstances ==
    {i \in Instances :
        instances[i].Tags.PublicIpAddress \cup instances[i].Tags.PrivateIpAddress # {}}

\* C2: when every invocation has added a distinct instance to the same
\* hostname and all have completed without error, the values of the record
\* set are exactly the addresses added, whatever the interleaving was.
C2_FanIn ==
    ( /\ env.ROUTE53_HOSTNAME # "_PrivateDnsName_"
      /\ \A p \in Procs :
           /\ inv[p].pc = "done" /\ inv[p].error = ""
           /\ Operation(inv[p].event) = "add"
      /\ \A p, q \in Procs : p # q => inv[p].event.instance # inv[q].event.instance
      /\ TaggedInstances \subseteq {inv[p].event.instance : p \in Procs} )
    => ValuesOf(zone, LiteralName) = {inv[p].instance_ip : p \in Procs}

\* C2 witness: adds of distinct instances to the same hostname have all
\* completed, one of them having waited for another's lock, and the record
\* set holds one value for each.
C2_Witness ==
    /\ env.ROUTE53_HOSTNAME # "_PrivateDnsName_"
    /\ \A p \in Procs :
         /\ inv[p].pc = "done" /\ inv[p].error = ""
         /\ Operation(inv[p].event) = "add"
    /\ \E p \in Procs : inv[p].contended
    /\ Cardinality({inv[p].event.instance : p \in Procs}) = NumProcs
    /\ Cardinality(ValuesOf(zone, LiteralName)) = NumProcs
    /\ TaggedInstances = {inv[p].event.instance : p \in Procs}

\* Invocation p takes the step that sends its change request.
SendsChange(p) == inv[p].pc = "change" /\ inv'[p].pc # "change"

\* C3: a remove of address a from a record set whose values A contain a
\* leaves the record set with exactly A \ {a}, and no record set when a was
\* the last value.
C3_RemoveMember ==
    [][\A p \in Procs :
         ( /\ SendsChange(p)
           /\ Operation(inv[p].event) = "remove"
           /\ inv[p].instance_ip \in ValuesOf(zone, inv[p].hostname) )
         => ARecord(zone', inv[p].hostname) =
              IF ValuesOf(zone, inv[p].hostname) = {inv[p].instance_ip}
              THEN {}
              ELSE {RRSet(inv[p].hostname, "A",
                          ValuesOf(zone, inv[p].hostname) \ {inv[p].instance_ip},
                          Ttl)}]_vars

\* C3 witness: a remove has just rewritten a record set that keeps the
\* address of another instance and no longer has the removed one.
C3_Witness ==
    \E p \in Procs :
        /\ inv[p].pc = "release" /\ inv[p].error = ""
        /\ Operation(inv[p].event) = "remove"
        /\ inv[p].requests # <<>>
        /\ inv[p].requests[1].Action = "UPSERT"
        /\ inv[p].instance_ip \notin ValuesOf(zone, inv[p].hostname)
        /\ ValuesOf(zone, inv[p].hostname) = Range(inv[p].requests[1].ResourceRecords)
        /\ inv[p].event.instance \in TaggedInstances

\* C4: every record set of the zone has a value, no UPSERT is sent with an
\* empty value list, and a remove with nothing remaining sends a DELETE.
C4_NeverEmpty ==
    /\ \A r \in zone : r.ResourceRecords # {}
    /\ \A p \in Procs : \A k \in 1..Len(inv[p].requests) :
         LET c == inv[p].requests[k]
         IN /\ c.Action = "UPSERT" => c.ResourceRecords # <<>>
            /\ (Operation(inv[p].event) = "remove" /\ inv[p].ip_set = {})
                   => c.Action = "DELETE"

\* C4 witness: a remove of the last value has sent a DELETE and the record
\* set is gone.
C4_Witness ==
    \E p \in Procs :
        /\ Operation(inv[p].event) = "remove" /\ inv[p].error = ""
        /\ inv[p].pc = "release"
        /\ inv[p].ip_set = {}
        /\ inv[p].requests # <<>> /\ inv[p].requests[1].Action = "DELETE"
        /\ ARecord(zone, inv[p].hostname) = {}

\* add_record, lines 64-96, run to its end on a zone nothing else changes:
\* the merge set after the last page.
RECURSIVE MergeSet(_, _, _, _, _)
MergeSet(z, name, ip_set, startName, startType) ==
    LET response == ListResourceRecordSets(z, startName, startType, MaxItems)
        merged == AddIpSet(response.ResourceRecordSets, name, ip_set)
    IN IF MorePages(response)
       THEN MergeSet(z, name, merged, response.NextRecordName,
                     response.NextRecordType)
       ELSE merged

\* upsert_member: what add_record does to the zone for a hostname and an
\* address (listing, merge, UPSERT).
upsert_member(z, name, addr, ttl) ==
    ApplyChange(z, AddChange(name, MergeSet(z, name, {addr}, NoName, NoType),
                             ttl))

\* C5: whatever the zone held, once an add has applied upsert_member for a
\* hostname and an address, applying it again in sequence gives the same
\* record sets (names, values, TTLs) as the first application left.
C5_UpsertIdempotent ==
    [][\A p \in Procs :
         (SendsChange(p) /\ Operation(inv[p].event) = "add")
         => /\ zone' = upsert_member(zone, inv[p].hostname, inv[p].instance_ip, Ttl)
            /\ upsert_member(zone', inv[p].hostname, inv[p].instance_ip, Ttl)
                   = zone']_vars

\* C5 witness: an add has sent its UPSERT for an instance whose address an
\* earlier add had already put into the record set, next to another value,
\* and the record set is what it was.
C5_Witness ==
    \E p \in Procs :
        /\ Operation(inv[p].event) = "add" /\ inv[p].pc = "tags"
        /\ inv[p].event.instance \in TaggedInstances
        /\ Cardinality(inv[p].ip_set) > 1
        /\ ValuesOf(zone, inv[p].hostname) = inv[p].ip_set
        /\ upsert_member(zone, inv[p].hostname, inv[p].instance_ip, Ttl) = zone

\* The errors raised inside the with statement's body.
BodyErrors == {"RuntimeError", "InvalidChangeBatch"}

\* C6: every event of the lifecycle-hook branch leads to a finished
\* invocation that has made exactly one completion call, with the result
\* CONTINUE, whatever happened on the way; no invocation ever makes two.
C6_HookCompleted ==
    /\ \A p \in Procs :
         [](IsHookBranch(inv[p].event)
              => <>(Finished(p) /\ inv[p].completions = <<"CONTINUE">>))
    /\ [](\A p \in Procs :
            /\ Len(inv[p].completions) <= 1
            /\ (Finished(p) /\ IsHookBranch(inv[p].event))
                   => inv[p].completions = <<"CONTINUE">>)

\* C6 witness: the remove path of a hook event has raised inside the
\* critical section and the completion call has been made once.
C6_Witness ==
    \E p \in Procs :
        /\ IsHookBranch(inv[p].event) /\ Finished(p)
        /\ inv[p].error \in BodyErrors
        /\ inv[p].completions = <<"CONTINUE">>

\* C7 as claimed: an invocation in which the add or remove path has failed
\* ends normally, acknowledged, the error caught by the handler.
C7_ErrorsCaught ==
    \A p \in Procs :
        (Finished(p) /\ inv[p].error \in BodyErrors \cup {"LockTimeout"})
        => inv[p].pc = "done" /\ inv[p].completions = <<"CONTINUE">>

\* C7 as amended: a failure of the remove path of a hook event does not
\* prevent the completion call, but nothing catches it: once the call is made
\* the error leaves the handler; a failure in the state-change branch leaves
\* the handler with no completion call at all.
C7_ErrorsPropagate ==
    \A p \in Procs :
        /\ (Finished(p) /\ inv[p].error # "")
             => /\ inv[p].pc = "raised"
                /\ inv[p].completions =
                     IF IsHookBranch(inv[p].event) THEN <<"CONTINUE">> ELSE <<>>
        /\ inv[p].pc = "raised" => inv[p].error # ""

\* C7 witness: one invocation has ended with the error of its hook event's
\* remove path after the completion call, another with the error of its
\* state-change event and no completion call.
C7_Witness ==
    \E p, q \in Procs :
        /\ inv[p].pc = "raised" /\ IsHookBranch(inv[p].event)
        /\ inv[p].error # "" /\ inv[p].completions = <<"CONTINUE">>
        /\ inv[q].pc = "raised" /\ ~IsHookBranch(inv[q].event)
        /\ inv[q].error \in BodyErrors /\ inv[q].completions = <<>>

\* C8: an invocation of the hook branch whose lock acquisition timed out
\* never holds the lock, sends no change request, writes no tag and changes
\* neither the zone nor the tags with any of its steps; it ends acknowledged.
C8_TimeoutLeavesDns ==
    /\ [](\A p \in Procs :
            (IsHookBranch(inv[p].event) /\ inv[p].error = "LockTimeout")
            => /\ inv[p].pc \in {"complete", "raised"}
               /\ inv[p].acquired = 0
               /\ inv[p].requests = <<>> /\ inv[p].tagged = 0
               /\ Finished(p) => inv[p].completions = <<"CONTINUE">>)
    /\ [][\A p \in Procs :
            (inv'[p] # inv[p] /\ inv'[p].error = "LockTimeout")
            => zone' = zone /\ instances' = instances]_vars

\* C8 witness: a hook event's invocation has waited out the budget, timed
\* out and made its completion call.
C8_Witness ==
    \E p \in Procs :
        /\ IsHookBranch(inv[p].event) /\ inv[p].error = "LockTimeout"
        /\ inv[p].contended /\ Finished(p)
        /\ inv[p].completions = <<"CONTINUE">>

\* C9: an invocation deletes the lock row once for the one acquisition it
\* made, on the normal and on the exceptional exit of the critical section:
\* outside the critical section its deletes equal its acquisitions, and
\* when no invocation is inside the row is gone.
C9_ReleasedOnce ==
    /\ \A p \in Procs :
         /\ inv[p].released <= inv[p].acquired /\ inv[p].acquired <= 1
         /\ InCriticalSection(p) <=> (inv[p].acquired = 1 /\ inv[p].released = 0)
         /\ Finished(p) => inv[p].released = inv[p].acquired
    /\ (\A p \in Procs : ~InCriticalSection(p)) => lockTable = {}

\* C9 witness: an invocation whose add or remove raised inside the critical
\* section has finished, having acquired once and deleted the row once.
C9_Witness ==
    \E p \in Procs :
        /\ Finished(p) /\ inv[p].error \in BodyErrors
        /\ inv[p].acquired = 1 /\ inv[p].released = 1
        /\ lockTable = {}

\* The invocation is between its listing and its write (about to do either).
InReadMergeWrite(p) == inv[p].pc \in {"list", "change"}

\* C10: an invocation lists and writes the zone only while it holds the
\* lock, all invocations lock the same resource id, and so no two of them
\* are in a read-merge-write sequence at once.
C10_Serialized ==
    /\ \A p \in Procs :
         InReadMergeWrite(p)
         => /\ inv[p].acquired = 1 /\ inv[p].released = 0
            /\ LockName(inv[p].event) \in lockTable
    /\ \A e1, e2 \in Events : LockName(e1) = LockName(e2)
    /\ \A p, q \in Procs :
         (InReadMergeWrite(p) /\ InReadMergeWrite(q)) => p = q

\* C10 witness: an add has listed the zone and not yet written, while a
\* remove is kept waiting for the lock.
C10_Witness ==
    \E p, q \in Procs :
        /\ inv[p].pc = "change" /\ Operation(inv[p].event) = "add"
        /\ inv[q].pc = "lock" /\ inv[q].contended
        /\ Operation(inv[q].event) = "remove"

\* The number of record sets on a full page of add_record's listing.
PageSize == Min({MaxItems, PageLimit})

\* The number of pages the listing of a zone has (an empty listing is one
\* page, not truncated).
PagesOf(z) ==
    IF z = {} THEN 1 ELSE (Cardinality(z) + PageSize - 1) \div PageSize

TaggedAddress(i) == instances[i].Tags[IpKind(env.ROUTE53_PUBLIC_IP)]

\* C11: a remove path that ran under the lock for an instance the add path
\* had registered and tagged has resolved the address of the configured mode,
\* the one the tag holds, and when the invocation ends that address is not
\* among the values of the hostname's record set; so for the termination
\* hook in private mode.
C11_RemoveSameMode ==
    \A p \in Procs :
        ( /\ Operation(inv[p].event) = "remove"
          /\ Finished(p) /\ inv[p].acquired = 1
          /\ TaggedAddress(inv[p].event.instance) # {} )
        => /\ inv[p].instance_ip \in TaggedAddress(inv[p].event.instance)
           /\ inv[p].instance_ip \notin ValuesOf(zone, inv[p].hostname)
           /\ TaggedAddress(inv[p].event.instance)
                  \cap ValuesOf(zone, inv[p].hostname) = {}

\* C12: a remove that reaches its change request when the zone has no A
\* record set named as its hostname fails (the error the claim calls
\* RecordNotFound, under whatever name the code raises it) and leaves the zone
\* as it is; no remove writes into its hostname's record set a value that
\* record set did not hold.
C12_RemoveAbsentFails ==
    [][\A p \in Procs :
         (SendsChange(p) /\ Operation(inv[p].event) = "remove")
         => /\ ARecord(zone, inv[p].hostname) = {}
                => zone' = zone /\ inv'[p].error # ""
            /\ ValuesOf(zone', inv[p].hostname)
                   \subseteq ValuesOf(zone, inv[p].hostname)]_vars

\* C13: a termination event handled again, for an instance the add path had
\* tagged and whose address is no longer among the values of its hostname's
\* record set (the first handling took it out, with the record set when it
\* was the last value), changes no record set and ends without error.
C13_SecondRemoveNoOp ==
    [][\A p \in Procs :
         ( /\ SendsChange(p)
           /\ Operation(inv[p].event) = "remove"
           /\ TaggedAddress(inv[p].event.instance) = {inv[p].instance_ip}
           /\ inv[p].instance_ip \notin ValuesOf(zone, inv[p].hostname) )
         => zone' = zone /\ inv'[p].error = ""]_vars

\* C14: the hostname a remove path targets for an instance is the one the
\* add path persisted on the instance's tags, no other and none when the
\* tags hold none.
C14_HostnamesFromTags ==
    \A p \in Procs :
        ( /\ Operation(inv[p].event) = "remove"
          /\ inv[p].pc \in {"get_ip", "list", "change"} )
        => {inv[p].hostname} = instances[inv[p].event.instance].Tags.Name

\* The address of instance i of the configured mode, as the platform
\* assigned it.
ModeAddress(i) == IF env.ROUTE53_PUBLIC_IP THEN PublicIp(i) ELSE PrivateIp(i)

ResolvesAddress(p) == inv[p].pc = "get_ip" /\ inv'[p].pc # "get_ip"

\* C16: the address an operation resolves is the live address of the kind
\* it asked for when the platform reports one, else the value of the tag of
\* that kind; with neither the resolution fails (the code's RuntimeError), and
\* an operation whose resolution failed sends no change request, writes no
\* tag and leaves the zone as it is.
C16_AddressFallback ==
    /\ [][\A p \in Procs :
            ResolvesAddress(p)
            => LET i == inv[p].event.instance
                   kind == IpKind(PublicArg(env, inv[p].event))
                   live == instances[i][kind]
                   tag == instances[i].Tags[kind]
               IN IF live # {}
                  THEN inv'[p].error = "" /\ inv'[p].instance_ip \in live
                  ELSE IF tag # {}
                  THEN inv'[p].error = "" /\ inv'[p].instance_ip \in tag
                  ELSE inv'[p].error = "RuntimeError"]_vars
    /\ [](\A p \in Procs :
            inv[p].error = "RuntimeError"
            => inv[p].requests = <<>> /\ inv[p].tagged = 0)
    /\ [][\A p \in Procs :
            (inv'[p] # inv[p] /\ inv'[p].error = "RuntimeError")
            => zone' = zone]_vars

\* C16 witness: a remove whose instance had lost its public address has
\* resolved the address from the tag and taken it out of the record set.
C16_Witness ==
    \E p \in Procs :
        /\ Operation(inv[p].event) = "remove"
        /\ inv[p].pc = "done" /\ inv[p].error = ""
        /\ inv[p].fallback
        /\ instances[inv[p].event.instance].PublicIpAddress = {}
        /\ inv[p].instance_ip
               \in instances[inv[p].event.instance].Tags.PublicIpAddress
        /\ inv[p].requests # <<>>
        /\ inv[p].instance_ip \notin ValuesOf(zone, inv[p].hostname)

\* The hostname prefixes of the integration test (ip, api).
Prefixes == <<"ip", "api">>

\* The dotted text of address a, token by token; the addresses of the model
\* differ in the last number only.
AddressText(a) == <<"80", ".", "90", ".", "1", ".", ToString(a)>>

\* text.replace(old, new)
Replace(text, old, new) ==
    [k \in DOMAIN text |-> IF text[k] = old THEN new ELSE text[k]]

\* The hostname the test expects for a prefix and a public address:
\* prefix + "-" + address.replace(".", "-").
PublicHostnameText(prefix, a) ==
    <<prefix, "-">> \o Replace(AddressText(a), ".", "-")

\* The record name of the k-th prefix's hostname of instance i, after the
\* names the code resolves, in the numbering of the zone's names.
PublicDnsName(k, i) == 1 + NumInstances + (k - 1) * NumInstances + i

\* C17: with ROUTE53_HOSTNAME set to the public-address sentinel, the
\* hostnames an operation resolves for an instance are one for each prefix,
\* in their order, each the prefix, a hyphen and the public address with its
\* dots replaced by hyphens.
C17_PublicSentinelHostnames ==
    \A p \in Procs :
        ( /\ env.ROUTE53_HOSTNAME = "_PublicDnsName_"
          /\ inv[p].pc \in {"get_ip", "list", "change", "tags"} )
        => <<NameText(env, inv[p].hostname)>>
               = [k \in 1..Len(Prefixes) |->
                    PublicHostnameText(Prefixes[k],
                                       PublicIp(inv[p].event.instance))]

\* C18: an operation that got to its change requests for an instance with
\* one hostname for each of the prefixes has made one lock acquisition and
\* has sent a request for every one of these hostnames, whether or not one of
\* them failed; after an add that ended without error the address is in the
\* record set of each.
C18_FanOut ==
    \A p \in Procs :
        ( /\ env.ROUTE53_HOSTNAME = "_PublicDnsName_"
          /\ Finished(p) /\ inv[p].requests # <<>> )
        => LET i == inv[p].event.instance
               names == {PublicDnsName(k, i) : k \in 1..Len(Prefixes)}
           IN /\ inv[p].acquired = 1
              /\ {inv[p].requests[k].Name : k \in 1..Len(inv[p].requests)}
                     = names
              /\ (Operation(inv[p].event) = "add" /\ inv[p].error = "")
                     => \A n \in names : inv[p].instance_ip \in ValuesOf(zone, n)

\* The event is the instance-launching transition of a lifecycle hook.
IsLaunchingHook(ev) == IsHookBranch(ev) /\ ev.LifecycleTransition = Launching

\* C20 as claimed: when the handling of an instance-launching lifecycle
\* event has ended without error, the instance's address is among the values
\* of its hostname's record set.
C20_LaunchingHookAdds ==
    \A p \in Procs :
        ( /\ IsLaunchingHook(inv[p].event)
          /\ inv[p].pc = "done" /\ inv[p].error = "" )
        => ModeAddress(inv[p].event.instance)
               \in ValuesOf(zone, resolve_hostname(env, instances,
                                                   inv[p].event.instance))

\* C20 as amended: the handling of an instance-launching lifecycle event
\* acquires no lock, sends no change request, writes no tag, leaves the zone
\* as it is and makes the completion call; the add path runs for the running
\* state-change event of an instance of the group, and when that handling has
\* ended without error the instance's address is among the values of its
\* hostname's record set.
C20_RunningStateAdds ==
    /\ [](\A p \in Procs :
            /\ IsLaunchingHook(inv[p].event)
                 => /\ inv[p].pc \in {"complete", "done"}
                    /\ inv[p].acquired = 0 /\ inv[p].requests = <<>>
                    /\ inv[p].tagged = 0 /\ inv[p].error = ""
                    /\ inv[p].pc = "done" => inv[p].completions = <<"CONTINUE">>
            /\ ( /\ inv[p].event.state = "running"
                 /\ inv[p].pc = "done" /\ inv[p].error = "" )
                 => /\ inv[p].requests # <<>>
                    /\ inv[p].instance_ip = ModeAddress(inv[p].event.instance)
                    /\ inv[p].instance_ip \in ValuesOf(zone, inv[p].hostname))
    /\ [][\A p \in Procs :
            (inv'[p] # inv[p] /\ IsLaunchingHook(inv'[p].event))
            => zone' = zone /\ instances' = instances]_vars

\* C20 witness: the handling of a running state-change event has ended
\* without error for an instance that was not registered, and the record set
\* of its hostname holds its address next to another instance's.
C20_Witness ==
    \E p \in Procs :
        /\ inv[p].event.state = "running"
        /\ inv[p].pc = "done" /\ inv[p].error = "" /\ inv[p].tagged = 1
        /\ inv[p].instance_ip \in ValuesOf(zone, inv[p].hostname)
        /\ Cardinality(ValuesOf(zone, inv[p].hostname)) > 1

\* The event is one the handler has nothing to do for: a lifecycle event of
\* a hook that is not one of its two or of a transition it has no case for,
\* a state-change event of a state it does not act on, or an event of an
\* instance that is not in the managed group.
Irrelevant(ev) ==
    \/ ev.source = "aws.autoscaling"
         /\ \/ ev.LifecycleHookName \notin HookNames
            \/ ev.LifecycleTransition \notin {Launching, Terminating}
    \/ ev.source = "aws.ec2"
         /\ ev.state \notin {"running", "shutting-down", "terminated"}
    \/ ev.instance \in Instances
         /\ get_instance_asg(instances, ev.instance) # AsgName

\* C21: the handling of an irrelevant event acquires no lock, sends no change
\* request, writes no tag, changes neither the zone nor the tags with any of
\* its steps and ends without an error.
C21_IrrelevantIgnored ==
    /\ [](\A p \in Procs :
            Irrelevant(inv[p].event)
            => /\ inv[p].acquired = 0 /\ inv[p].pc # "lock"
               /\ inv[p].requests = <<>> /\ inv[p].tagged = 0
               /\ inv[p].error = "" /\ inv[p].pc # "raised")
    /\ [][\A p \in Procs :
            (inv'[p] # inv[p] /\ Irrelevant(inv'[p].event))
            => zone' = zone /\ instances' = instances]_vars

\* The values of the record sets of the zone other than the A record set of
\* a name: those of another name and those of another type.
ForeignValues(z, name) ==
    UNION {r.ResourceRecords : r \in z \ ARecord(z, name)}

\* C22: the UPSERT of an add writes exactly the instance's address and the
\* values the A record set named as the hostname held; a value that only a
\* record set of another name or of another type (the apex NS) holds is not
\* written, and the record sets other than the hostname's stay as they were.
C22_OnlyOwnRecordMerged ==
    [][\A p \in Procs :
         (SendsChange(p) /\ Operation(inv[p].event) = "add")
         => LET own == ValuesOf(zone, inv[p].hostname) \cup {inv[p].instance_ip}
                written == ValuesOf(zone', inv[p].hostname)
            IN /\ written = own
               /\ written \cap (ForeignValues(zone, inv[p].hostname) \ own) = {}
               /\ NsValue \notin written
               /\ zone' \ ARecord(zone', inv[p].hostname)
                      = zone \ ARecord(zone, inv[p].hostname)]_vars

\* C22 witness: an add has listed several pages and written the record set
\* of its hostname with the instance's address, in a zone where the apex NS
\* record set and the A record set of another name hold values that were
\* not written.
C22_Witness ==
    \E p \in Procs :
        /\ Operation(inv[p].event) = "add" /\ inv[p].pc = "tags"
        /\ inv[p].pages > 2
        /\ ValuesOf(zone, inv[p].hostname) = {inv[p].instance_ip}
        /\ \E r \in zone : r.Type = "NS"
                           /\ r.ResourceRecords \cap ValuesOf(zone, inv[p].hostname) = {}
        /\ \E r \in zone : /\ r.Type = "A" /\ r.Name # inv[p].hostname
                           /\ r.ResourceRecords \cap ValuesOf(zone, inv[p].hostname) = {}

\* No other invocation is about to ask for the lock.
NoCompetitor(q) == \A r \in Procs \ {q} : inv[r].pc \notin {"idle", "lock"}

C24_StoreErrorAborts ==
    /\ [][\A p \in Procs :
            (inv[p].pc = "lock" /\ inv'[p].pc = "lock" /\ inv'[p] # inv[p])
            => /\ LockName(inv[p].event) \in lockTable
               /\ inv'[p].error = "" /\ inv'[p].contended]_vars
    /\ [](\A p \in Procs :
            inv[p].error = "ClientError"
            => /\ inv[p].pc \in {"complete", "raised"}
               /\ inv[p].acquired = 0 /\ inv[p].released = 0
               /\ inv[p].requests = <<>> /\ inv[p].tagged = 0)
    /\ [][\A p \in Procs :
            (inv[p].error = "ClientError" /\ inv'[p] # inv[p])
            => /\ inv'[p].pc = "raised" /\ inv'[p].error = "ClientError"
               /\ zone' = zone /\ instances' = instances
               /\ lockTable' = lockTable]_vars

\* C24 witness: an invocation that had retried on a refused insert has got
\* another error from the store and ended with it, the lock still held by
\* the other invocation.
C24_Witness ==
    \E p, q \in Procs :
        /\ inv[p].error = "ClientError" /\ inv[p].contended
        /\ inv[p].pc = "raised" /\ inv[p].acquired = 0
        /\ InCriticalSection(q) /\ LockName(inv[q].event) \in lockTable

\* The change request invocation p sends with the step it takes.
SentChange(p) == inv'[p].requests[Len(inv'[p].requests)]

\* C25: when a remove sends a DELETE, the zone holds an A record set named
\* as the request's hostname and the values the DELETE lists are the values
\* that record set holds.
C25_DeleteMatchesRecord ==
    [][\A p \in Procs :
         ( /\ SendsChange(p) /\ Operation(inv[p].event) = "remove"
           /\ SentChange(p).Action = "DELETE" )
         => /\ SentChange(p).Name = inv[p].hostname
            /\ \E r \in ARecord(zone, inv[p].hostname) :
                 r.ResourceRecords = Range(SentChange(p).ResourceRecords)]_vars

\* C26: the value list of every UPSERT an add or a remove has sent is in
\* ascending order, the order sorted() gives the set of its values; two
\* UPSERTs of the same set are the same request.
C26_UpsertsSorted ==
    \A p \in Procs : \A k \in 1..Len(inv[p].requests) :
        inv[p].requests[k].Action = "UPSERT"
        => inv[p].requests[k].ResourceRecords
               = Sorted(Range(inv[p].requests[k].ResourceRecords))

\* The invocation has inserted the lock row and not yet deleted it.
HoldsLock(p) ==
    /\ inv[p].acquired = 1 /\ inv[p].released = 0
    /\ LockName(inv[p].event) \in lockTable

\* Invocation p takes the step that resolves its hostname.
ResolvesHostname(p) == inv[p].pc = "resolve" /\ inv'[p].pc # "resolve"

\* Invocation p takes the step that writes the tags of its instance.
WritesTags(p) == inv[p].pc = "tags" /\ inv'[p].pc # "tags"

\* Invocation p takes the step that deletes the lock row.
Releases(p) == inv[p].pc = "release" /\ inv'[p].pc # "release"

\* The steps of the add path of invocation p are taken in order: the
\* resolution of the hostname and of the address, with the lock held or not
\* as heldAtResolution says, before any request; the UPSERT with the lock
\* held, after the resolution and before the tags; the tags with the lock
\* held and the UPSERT applied; the delete of the row last.
AddOrder(p, heldAtResolution) ==
    /\ (ResolvesHostname(p) \/ ResolvesAddress(p))
         => /\ HoldsLock(p) = heldAtResolution
            /\ inv[p].requests = <<>> /\ inv[p].tagged = 0
    /\ SendsChange(p)
         => /\ HoldsLock(p)
            /\ inv[p].hostname = resolve_hostname(env, instances,
                                                  inv[p].event.instance)
            /\ inv[p].instance_ip # 0
            /\ inv[p].requests = <<>> /\ inv[p].tagged = 0
    /\ WritesTags(p)
         => /\ HoldsLock(p)
            /\ Len(inv[p].requests) = 1 /\ inv[p].error = ""
            /\ inv[p].instance_ip \in ValuesOf(zone, inv[p].hostname)
            /\ inv'[p].tagged = 1
    /\ Releases(p)
         => /\ HoldsLock(p)
            /\ inv[p].error = "" => (inv[p].requests # <<>> /\ inv[p].tagged = 1)
            /\ inv[p].error # "" => inv[p].tagged = 0
            /\ LockName(inv[p].event) \notin lockTable'

\* C27 as claimed: the add path resolves the hostname and the address
\* before it acquires the lock, then sends the UPSERT, writes the tags and
\* releases, the tags written under the lock after the UPSERT succeeded.
C27_ResolvedBeforeLock ==
    [][\A p \in Procs :
         Operation(inv[p].event) = "add" => AddOrder(p, FALSE)]_vars

\* C27 as amended: the add path acquires the lock, resolves the hostname
\* and the address while it holds it, then sends the UPSERT, writes the tags
\* and releases, the tags written under the lock after the UPSERT succeeded.
C27_ResolvedUnderLock ==
    [][\A p \in Procs :
         Operation(inv[p].event) = "add" => AddOrder(p, TRUE)]_vars

\* C27 witness: an add path is about to delete the lock row it holds, having
\* resolved, sent its UPSERT and written the tags of its instance.
C27_Witness ==
    \E p \in Procs :
        /\ Operation(inv[p].event) = "add" /\ inv[p].pc = "release"
        /\ HoldsLock(p) /\ inv[p].error = ""
        /\ Len(inv[p].requests) = 1 /\ inv[p].tagged = 1
        /\ inv[p].instance_ip \in ValuesOf(zone, inv[p].hostname)
        /\ instances[inv[p].event.instance].Tags.Name = {inv[p].hostname}

\* Invocation p takes the step that makes the completion call.
Completes(p) == inv[p].pc = "complete" /\ inv'[p].pc # "complete"

\* C28: an invocation that is about to make, makes or has made the
\* completion call is outside the critical section: it has deleted the row
\* for the acquisition it made, or made none.
C28_AckAfterRelease ==
    /\ [](\A p \in Procs :
            (inv[p].pc = "complete" \/ inv[p].completions # <<>>)
            => /\ ~InCriticalSection(p)
               /\ inv[p].released = inv[p].acquired)
    /\ [][\A p \in Procs :
            Completes(p)
            => /\ inv[p].released = inv[p].acquired
               /\ inv[p].requests # <<>> => inv[p].released = 1
               /\ lockTable' = lockTable]_vars

\* C28 witness: a termination hook's invocation has made the completion
\* call after a remove it ran under the lock, and has deleted the row.
C28_Witness ==
    \E p \in Procs :
        /\ IsHookBranch(inv[p].event) /\ inv[p].pc = "done"
        /\ inv[p].completions = <<"CONTINUE">>
        /\ inv[p].requests # <<>> /\ inv[p].error = ""
        /\ inv[p].acquired = 1 /\ inv[p].released = 1
        /\ \A q \in Procs : ~InCriticalSection(q)
        /\ lockTable = {}

\* The errors with which an acquisition fails.
AcquireErrors == {"LockTimeout", "ClientError"}

\* C29: an invocation whose acquisition failed has inserted no row, never
\* comes to the delete and has deleted none; a row leaves the table only by
\* the delete of the invocation that inserted it, and the row of an
\* invocation that stays in the critical section stays in the table.
C29_FailedAcquireNeverDeletes ==
    /\ [](\A p \in Procs :
            inv[p].error \in AcquireErrors
            => /\ inv[p].acquired = 0 /\ inv[p].released = 0
               /\ inv[p].pc # "release")
    /\ [][\A rid \in lockTable \ lockTable' :
            \E p \in Procs :
                /\ Releases(p) /\ LockName(inv[p].event) = rid
                /\ inv[p].acquired = 1 /\ inv[p].released = 0
                /\ inv[p].error \notin AcquireErrors]_vars
    /\ [][\A q \in Procs :
            (InCriticalSection(q) /\ inv'[q].pc = inv[q].pc)
            => LockName(inv[q].event) \in lockTable']_vars

\* C29 witness: an invocation has ended on the timeout of its acquisition
\* without a delete, and the invocation that holds the lock is still in the
\* critical section with its row in the table.
C29_Witness ==
    \E p, q \in Procs :
        /\ inv[p].error = "LockTimeout" /\ inv[p].contended /\ Finished(p)
        /\ inv[p].released = 0
        /\ InCriticalSection(q) /\ LockName(inv[q].event) \in lockTable

\* C30: whether the configured zone name ends with a dot or not, the record
\* name in the change request of an add and of a remove is the hostname, a
\* dot and the zone name ending with one dot: the same name for the same
\* hostname on both paths.
C30_SameDottedName ==
    \A p \in Procs :
        inv[p].requests # <<>>
        => /\ inv[p].record_name
                = RequestName(env, "add", inv[p].hostname)
           /\ inv[p].record_name
                = RequestName(env, "remove", inv[p].hostname)
           /\ inv[p].record_name
                = RecordName(NameText(env, inv[p].hostname), DottedZoneName)

====
